---- MODULE Spec2Model ----
(***************************************************************************)
(* Model of run_pipeline (server/python_src/pipeline_engine.py): the text  *)
(* normalizer, the dictionary join/split repair, the sentence chunker and  *)
(* the train/val/test split.  Each stage is a group of actions over the    *)
(* variables that stage assigns; a specification per stage starts from the *)
(* inputs that stage can receive.                                          *)
(***************************************************************************)
EXTENDS Integers, Sequences, FiniteSets, TLC

VARIABLES
    pc,             \* position in run_pipeline
    text,           \* the text being cleaned, a list of characters
    normalized,     \* history: the text as TextNormalizer left it
    dict_file,      \* the lexicon file: whether it exists, and its lines
    word_set,       \* the Lexicon
    tokens,         \* text.split() of the running repair pass
    fixed,          \* output tokens of the running repair pass
    i,              \* scan position of the join pass (0-based, as in the code)
    tok_idx,        \* number of tokens the split pass's for-loop has consumed
    broken_pairs,   \* broken-pair counter
    joins,          \* join counter
    split_fixes,    \* split counter
    good,           \* kept sentences, each the list of its words (sent.split())
    si,             \* number of sentences of `good` the for-loop has consumed
    current_words,  \* the chunker's word buffer
    chunks,         \* emitted chunks, each the list of the words joined by " "
    only_appended,  \* history: current_words was never assigned by the overflow branch
    chunk_appended, \* history: only_appended at the time each chunk was emitted
    records,        \* chunks_with_id: one {id, text, word_count} per chunk
    pairs,          \* the pair dataset: {text_a, text_b, label} examples
    neg_idx,        \* number of negative pairs the for-loop has drawn
    shuffled,       \* records.copy() after random.shuffle
    train_data,     \* train.json
    val_data,       \* val.json
    test_data,      \* test.json
    source,         \* current_pdf: the name of the source file of the run
    state_file,     \* cache/pipeline_state.json, the run state marker
    files,          \* the items of cache, datasets and outputs, marker excluded
    CLEAN_REQUIRED, \* the flag set by the pipeline guard
    last_stage,     \* history: the stage the marker held when the run loaded it
    run,            \* history: number of runs started on the working area
    outcome,        \* history: how text extraction ended in the current run
    result          \* what the last run returned to the entry point

cleanVars == <<text, normalized, dict_file, word_set, tokens, fixed, i, tok_idx,
               broken_pairs, joins, split_fixes>>

chunkVars == <<good, si, current_words, chunks, only_appended, chunk_appended>>

exportVars == <<records, pairs, neg_idx, shuffled, train_data, val_data, test_data>>

runVars == <<source, state_file, files, CLEAN_REQUIRED, last_stage, run,
             outcome, result>>

vars == <<pc, cleanVars, chunkVars, exportVars, runVars>>

\* the variables of a stage that has not started
CleanIdle ==
    /\ text = <<>>
    /\ normalized = <<>>
    /\ dict_file = [exists |-> FALSE, lines |-> <<>>]
    /\ word_set = {}
    /\ tokens = <<>>
    /\ fixed = <<>>
    /\ i = 0
    /\ tok_idx = 0
    /\ broken_pairs = 0
    /\ joins = 0
    /\ split_fixes = 0

ChunkIdle ==
    /\ good = <<>>
    /\ si = 0
    /\ current_words = <<>>
    /\ chunks = <<>>
    /\ only_appended = TRUE
    /\ chunk_appended = <<>>

ExportIdle ==
    /\ records = <<>>
    /\ pairs = <<>>
    /\ neg_idx = 0
    /\ shuffled = <<>>
    /\ train_data = <<>>
    /\ val_data = <<>>
    /\ test_data = <<>>

\* no marker: state_file.exists() is false
NoMarker == [exists |-> FALSE, pdf |-> "none", stage |-> "none", method |-> "none"]

\* the three areas the pipeline guard cleans
Areas == {"cache", "datasets", "outputs"}

RunIdle ==
    /\ source = "none"
    /\ state_file = NoMarker
    /\ files = [a \in Areas |-> {}]
    /\ CLEAN_REQUIRED = FALSE
    /\ last_stage = "none"
    /\ run = 0
    /\ outcome = "none"
    /\ result = "none"

----------------------------------------------------------------------------
(* Bounds of the model *)

MaxSents == 4

MaxNormLen == 7

MaxTextLen == 5

MaxChunks == 10

\* chunks handed to the pair builder
MaxPairChunks == 2

\* runs started on one working area
MaxRuns == 3

\* lists up to this length are shuffled into every order
FullShuffleLen == 4

\* word counts of the kept sentences that are tried
SentLens == {20, 80, 81, 100, 200}

----------------------------------------------------------------------------
(* Generic helpers (Python list semantics) *)

\* all sequences over S of length 0..n
SeqsUpTo(S, n) == UNION {[1..k -> S] : k \in 0..n}

\* lst[-n:] for n > 0: the last n elements, the whole list when it is shorter
LastN(lst, n) == SubSeq(lst, IF Len(lst) > n THEN Len(lst) - n + 1 ELSE 1, Len(lst))

\* lst[:n]
FirstN(lst, n) == SubSeq(lst, 1, IF Len(lst) > n THEN n ELSE Len(lst))

----------------------------------------------------------------------------
(* Characters.  A text is a list of characters; a character is a string of *)
(* one ASCII character, or the bracketed name of a non-ASCII one.          *)

LowerLetters == <<"a", "b", "c", "d", "e", "f", "g", "h", "i", "j", "k", "l", "m",
                  "n", "o", "p", "q", "r", "s", "t", "u", "v", "w", "x", "y", "z">>

UpperLetters == <<"A", "B", "C", "D", "E", "F", "G", "H", "I", "J", "K", "L", "M",
                  "N", "O", "P", "Q", "R", "S", "T", "U", "V", "W", "X", "Y", "Z">>

\* [a-z]
IsLower(c) == \E k \in 1..Len(LowerLetters) : LowerLetters[k] = c

IsUpper(c) == \E k \in 1..Len(UpperLetters) : UpperLetters[k] = c

\* \d
IsDigit(c) == c \in {"0", "1", "2", "3", "4", "5", "6", "7", "8", "9"}

\* \s ; its complement is \S
IsSpace(c) == c \in {" ", "\t", "\n"}

\* str.lower() of one character
LowerChar(c) ==
    IF IsUpper(c)
       THEN LowerLetters[CHOOSE k \in 1..Len(UpperLetters) : UpperLetters[k] = c]
       ELSE c

\* str.lower()
Lower(s) == [k \in 1..Len(s) |-> LowerChar(s[k])]

\* str.isalpha(): at least one character, and all of them letters
IsAlpha(s) == Len(s) > 0 /\ \A k \in 1..Len(s) : IsLower(s[k]) \/ IsUpper(s[k])

\* whether the characters of `lit` stand in t from position k on (1-based)
HasAt(t, k, lit) ==
    /\ k + Len(lit) - 1 <= Len(t)
    /\ \A d \in 1..Len(lit) : t[k + d - 1] = lit[d]

\* the character classes the patterns use
InClass(c, cls) ==
    CASE cls = "nonspace" -> ~IsSpace(c)
      [] cls = "digit"    -> IsDigit(c)
      [] cls = "blank"    -> c \in {" ", "\t"}
      [] cls = "space"    -> c = " "

\* the first position from k on that is past the run of characters of cls
RECURSIVE RunEnd(_, _, _)
RunEnd(t, k, cls) ==
    IF k <= Len(t) /\ InClass(t[k], cls) THEN RunEnd(t, k + 1, cls) ELSE k

----------------------------------------------------------------------------
(* BLOCK 4: character normalize, artifacts, whitespace, hyphen fix *)

\* the ligatures and quotes tables: what text.replace puts for one character
Replacement(c) ==
    CASE c = "<fi>"  -> <<"f", "i">>
      [] c = "<fl>"  -> <<"f", "l">>
      [] c = "<ff>"  -> <<"f", "f">>
      [] c = "<ffi>" -> <<"f", "f", "i">>
      [] c = "<ffl>" -> <<"f", "f", "l">>
      [] c \in {"<rsquo>", "<lsquo>"} -> <<"'">>
      [] c \in {"<ldquo>", "<rdquo>"} -> <<"<dquote>">>
      [] c \in {"<ndash>", "<mdash>", "<minus>"} -> <<"-">>
      [] OTHER -> <<c>>

\* [​-‍﻿]
IsZeroWidth(c) == c \in {"<zwsp>", "<zwnj>", "<zwj>", "<bom>"}

\* the two replace loops, then the zero-width characters removed
RECURSIVE CharNormalize(_)
CharNormalize(t) ==
    IF t = <<>> THEN <<>>
    ELSE (IF IsZeroWidth(Head(t)) THEN <<>> ELSE Replacement(Head(t)))
         \o CharNormalize(Tail(t))

\* `lit` at k followed by \S+ : the position after the match, or 0
LitThenNonSpace(t, k, lit) ==
    LET p == k + Len(lit) IN
    IF HasAt(t, k, lit) /\ p <= Len(t) /\ InClass(t[p], "nonspace")
       THEN RunEnd(t, p, "nonspace")
       ELSE 0

\* http[s]?://\S+
MatchHttp(t, k) ==
    LET withS == LitThenNonSpace(t, k, <<"h", "t", "t", "p", "s", ":", "/", "/">>)
    IN IF withS > 0 THEN withS
       ELSE LitThenNonSpace(t, k, <<"h", "t", "t", "p", ":", "/", "/">>)

\* www\.\S+
MatchWww(t, k) == LitThenNonSpace(t, k, <<"w", "w", "w", ".">>)

\* Page \d+ with re.I
MatchPage(t, k) ==
    IF /\ k + 5 <= Len(t)
       /\ Lower(SubSeq(t, k, k + 3)) = <<"p", "a", "g", "e">>
       /\ t[k + 4] = " "
       /\ IsDigit(t[k + 5])
       THEN RunEnd(t, k + 5, "digit")
       ELSE 0

\* [ \t]+
MatchBlanks(t, k) == IF InClass(t[k], "blank") THEN RunEnd(t, k, "blank") ELSE 0

\* " *\n *"
MatchAroundNewline(t, k) ==
    LET nl == RunEnd(t, k, "space") IN
    IF nl <= Len(t) /\ t[nl] = "\n" THEN RunEnd(t, nl + 1, "space") ELSE 0

\* ([a-z])-\n([a-z])
MatchHyphenBreak(t, k) ==
    IF /\ k + 3 <= Len(t)
       /\ IsLower(t[k])
       /\ t[k + 1] = "-"
       /\ t[k + 2] = "\n"
       /\ IsLower(t[k + 3])
       THEN k + 4
       ELSE 0

\* the position after the match of pattern `pat` that starts at k, or 0 when
\* the pattern does not match there
MatchEnd(pat, t, k) ==
    CASE pat = "http"    -> MatchHttp(t, k)
      [] pat = "www"     -> MatchWww(t, k)
      [] pat = "page"    -> MatchPage(t, k)
      [] pat = "blanks"  -> MatchBlanks(t, k)
      [] pat = "newline" -> MatchAroundNewline(t, k)
      [] pat = "hyphen"  -> MatchHyphenBreak(t, k)

\* what the code's re.sub call for `pat` puts for the match t[k..e-1]
Repl(pat, t, k, e) ==
    CASE pat \in {"http", "www", "page"} -> <<>>
      [] pat = "blanks"  -> <<" ">>
      [] pat = "newline" -> <<"\n">>
      [] pat = "hyphen"  -> <<t[k], t[k + 3]>>

\* re.sub from position k on: matches are leftmost and do not overlap
RECURSIVE ReSub(_, _, _)
ReSub(pat, t, k) ==
    IF k > Len(t) THEN <<>>
    ELSE LET e == MatchEnd(pat, t, k) IN
         IF e > k
            THEN Repl(pat, t, k, e) \o ReSub(pat, t, e)
            ELSE <<t[k]>> \o ReSub(pat, t, k + 1)

\* the three artifact removals, in the code's order
RemoveArtifacts(t) == ReSub("page", ReSub("www", ReSub("http", t, 1), 1), 1)

\* the two whitespace substitutions
WhitespaceNormalize(t) == ReSub("newline", ReSub("blanks", t, 1), 1)

HyphenFix(t) == ReSub("hyphen", t, 1)

\* TextNormalizer as a whole
Normalize(t) == HyphenFix(WhitespaceNormalize(RemoveArtifacts(CharNormalize(t))))

\* raw texts tried: every text of up to MaxNormLen characters over a letter,
\* the hyphen, the newline and the space, and samples of the other patterns
NormAlphabet == {"a", "-", "\n", " "}

NormSamples == {
    <<"<fi>", "<ffl>", "<ldquo>", "a", "<rdquo>", "<mdash>", "<zwsp>", "b">>,
    <<"a", " ", "h", "t", "t", "p", "s", ":", "/", "/", "x", ".", "y", " ", "b">>,
    <<"h", "t", "t", "p", ":", "/", "/", "x", "\n", "w", "w", "w", ".", "x", "\t", "b">>,
    <<"h", "t", "t", "p", "s", ":", "/", "/", " ", "w", "w", "w", ".", " ", "a">>,
    <<"a", " ", "p", "A", "G", "e", " ", "1", "2", " ", "\t", " ", "\n", " ", "b">>,
    <<"P", "a", "g", "e", " ", "P", "a", "g", "e", " ", "1", " ", "2">>,
    <<"w", "w", "-", "\n", "w", ".", "x">>,
    <<"A", "-", "\n", "b", " ", "a", "<ndash>", "\n", "b">> }

InitNorm ==
    /\ pc = "char_normalize"
    /\ text \in SeqsUpTo(NormAlphabet, MaxNormLen) \cup NormSamples
    /\ normalized = <<>>
    /\ dict_file = [exists |-> FALSE, lines |-> <<>>]
    /\ word_set = {}
    /\ tokens = <<>>
    /\ fixed = <<>>
    /\ i = 0
    /\ tok_idx = 0
    /\ broken_pairs = 0
    /\ joins = 0
    /\ split_fixes = 0
    /\ ChunkIdle
    /\ ExportIdle
    /\ RunIdle

\* lines 297-306
NormChars ==
    /\ pc = "char_normalize"
    /\ text' = CharNormalize(text)
    /\ pc' = "remove_artifacts"
    /\ UNCHANGED <<normalized, dict_file, word_set, tokens, fixed, i, tok_idx,
                   broken_pairs, joins, split_fixes, chunkVars, exportVars>>
    /\ UNCHANGED runVars

\* lines 312-314
NormArtifacts ==
    /\ pc = "remove_artifacts"
    /\ text' = RemoveArtifacts(text)
    /\ pc' = "whitespace"
    /\ UNCHANGED <<normalized, dict_file, word_set, tokens, fixed, i, tok_idx,
                   broken_pairs, joins, split_fixes, chunkVars, exportVars>>
    /\ UNCHANGED runVars

\* lines 320-321
NormWhitespace ==
    /\ pc = "whitespace"
    /\ text' = WhitespaceNormalize(text)
    /\ pc' = "hyphen_fix"
    /\ UNCHANGED <<normalized, dict_file, word_set, tokens, fixed, i, tok_idx,
                   broken_pairs, joins, split_fixes, chunkVars, exportVars>>
    /\ UNCHANGED runVars

\* line 329; the normalizer's output goes on to the dictionary stage
NormHyphen ==
    /\ pc = "hyphen_fix"
    /\ text' = HyphenFix(text)
    /\ normalized' = text'
    /\ pc' = "load_dict"
    /\ UNCHANGED <<dict_file, word_set, tokens, fixed, i, tok_idx,
                   broken_pairs, joins, split_fixes, chunkVars, exportVars>>
    /\ UNCHANGED runVars

NextNorm == NormChars \/ NormArtifacts \/ NormWhitespace \/ NormHyphen

SpecNorm == InitNorm /\ [][NextNorm]_vars

\* C9: TextNormalizer is idempotent: applying the normalization steps to the
\* normalizer's own output returns that output unchanged.
C9_NormalizerIdempotent ==
    pc = "load_dict" => Normalize(text) = text

----------------------------------------------------------------------------
(* BLOCK 4: load dictionary, small-word join, dictionary split *)

\* str.split(): the maximal runs of non-whitespace characters of t from
\* position k on; cur is the run being read
RECURSIVE SplitFrom(_, _, _)
SplitFrom(t, k, cur) ==
    IF k > Len(t) THEN (IF cur = <<>> THEN <<>> ELSE <<cur>>)
    ELSE IF IsSpace(t[k])
            THEN (IF cur = <<>> THEN <<>> ELSE <<cur>>) \o SplitFrom(t, k + 1, <<>>)
            ELSE SplitFrom(t, k + 1, Append(cur, t[k]))

Split(t) == SplitFrom(t, 1, <<>>)

\* " ".join(toks)
RECURSIVE Join(_)
Join(toks) ==
    IF toks = <<>> THEN <<>>
    ELSE IF Len(toks) = 1 THEN toks[1]
    ELSE toks[1] \o <<" ">> \o Join(Tail(toks))

\* the loop over the lexicon file's lines from line k on: the words added, and
\* whether line.strip().split()[0] raised IndexError on a line without a word
RECURSIVE LoadWords(_, _, _)
LoadWords(lines, k, acc) ==
    IF k > Len(lines) THEN [raised |-> FALSE, words |-> acc]
    ELSE LET fields == Split(lines[k]) IN
         IF fields = <<>> THEN [raised |-> TRUE, words |-> acc]
         ELSE LET w == Lower(fields[1]) IN
              LoadWords(lines, k + 1, IF w # <<>> THEN acc \cup {w} ELSE acc)

\* mutant: only one-letter tokens are taken as the first half of a pair
IsBrokenPair_one_letter(a, b) == Len(a) < 2 /\ IsAlpha(a) /\ IsAlpha(b)

\* len(a) <= 2 and a.isalpha() and b.isalpha()
IsBrokenPair(a, b) == Len(a) <= 2 /\ IsAlpha(a) /\ IsAlpha(b)

\* mutant: the merge is made whether or not the merged form is a word
MergedIsWord_unchecked(a, b, ws) == TRUE

\* merged = (a + b).lower(); merged in word_set
MergedIsWord(a, b, ws) == Lower(a \o b) \in ws

\* low in word_set or not tok.isalpha() or len(tok) < 4
PassedThrough(tok, ws) == Lower(tok) \in ws \/ ~IsAlpha(tok) \/ Len(tok) < 4

\* low[:cut] in word_set and low[cut:] in word_set
CutIsValid(low, cut, ws) ==
    SubSeq(low, 1, cut) \in ws /\ SubSeq(low, cut + 1, Len(low)) \in ws

\* for cut in range(cut, n): the first valid cut, or 0 when the loop ends
\* without a break
RECURSIVE ScanCuts(_, _, _, _)
ScanCuts(low, cut, n, ws) ==
    IF cut >= n THEN 0
    ELSE IF CutIsValid(low, cut, ws) THEN cut
    ELSE ScanCuts(low, cut + 1, n, ws)

\* mutant: the scan keeps the last valid cut instead of breaking at the first
FirstValidCut_last(tok, ws) ==
    LET low == Lower(tok)
        valid == {c \in 1..(Len(tok) - 1) : CutIsValid(low, c, ws)}
    IN IF valid = {} THEN 0 ELSE CHOOSE c \in valid : \A d \in valid : d <= c

FirstValidCut(tok, ws) == ScanCuts(Lower(tok), 1, Len(tok), ws)

\* left + " " + right
SplitAt(tok, cut) ==
    LET low == Lower(tok) IN
    SubSeq(low, 1, cut) \o <<" ">> \o SubSeq(low, cut + 1, Len(low))

\* the raw texts behind the cleaned texts tried, and the lexicon files tried
RepairAlphabet == {"a", "B", "1", " ", "\n"}

AbsentFile == [exists |-> FALSE, lines |-> <<>>]

EmptyFile == [exists |-> TRUE, lines |-> <<>>]

BlankLineFile == [exists |-> TRUE, lines |-> << <<>> >>]

WordsFile ==
    [exists |-> TRUE,
     lines |-> << <<"a", " ", "9">>, <<"B">>, <<" ", "a", "b", "\t", "9">>,
                  <<"b", "a", "b">>, <<"B", "a", "b", "a", " ", "1">> >>]

DictFiles == {AbsentFile, EmptyFile, BlankLineFile, WordsFile}

InitRepair ==
    /\ pc = "load_dict"
    /\ text \in {Normalize(raw) : raw \in SeqsUpTo(RepairAlphabet, MaxTextLen)}
    /\ normalized = text
    /\ dict_file \in DictFiles
    /\ word_set = {}
    /\ tokens = <<>>
    /\ fixed = <<>>
    /\ i = 0
    /\ tok_idx = 0
    /\ broken_pairs = 0
    /\ joins = 0
    /\ split_fixes = 0
    /\ ChunkIdle
    /\ ExportIdle
    /\ RunIdle

\* lines 335-346; an IndexError leaves run_pipeline
LoadDictionary ==
    /\ pc = "load_dict"
    /\ LET loaded == IF dict_file.exists
                        THEN LoadWords(dict_file.lines, 1, {})
                        ELSE [raised |-> FALSE, words |-> {}]
       IN /\ word_set' = loaded.words
          /\ pc' = IF loaded.raised THEN "raised" ELSE "join_start"
    /\ UNCHANGED <<text, normalized, dict_file, tokens, fixed, i, tok_idx,
                   broken_pairs, joins, split_fixes, chunkVars, exportVars>>
    /\ UNCHANGED runVars

\* lines 353-360
JoinStart ==
    /\ pc = "join_start"
    /\ broken_pairs' = 0
    /\ joins' = 0
    /\ IF word_set # {}
          THEN /\ tokens' = Split(text)
               /\ fixed' = <<>>
               /\ i' = 0
               /\ pc' = "join_loop"
          ELSE /\ UNCHANGED <<tokens, fixed, i>>
               /\ pc' = "split_start"
    /\ UNCHANGED <<text, normalized, dict_file, word_set, tok_idx, split_fixes,
                   chunkVars, exportVars>>
    /\ UNCHANGED runVars

\* lines 362-379: one iteration of `while i < len(tokens)`
JoinStep ==
    /\ pc = "join_loop"
    /\ i < Len(tokens)
    /\ IF i + 1 < Len(tokens) /\ IsBrokenPair(tokens[i + 1], tokens[i + 2])
          THEN /\ broken_pairs' = broken_pairs + 1
               /\ IF MergedIsWord(tokens[i + 1], tokens[i + 2], word_set)
                     THEN /\ fixed' = Append(fixed, tokens[i + 1] \o tokens[i + 2])
                          /\ joins' = joins + 1
                          /\ i' = i + 2
                     ELSE /\ fixed' = Append(fixed, tokens[i + 1])
                          /\ i' = i + 1
                          /\ UNCHANGED joins
          ELSE /\ fixed' = Append(fixed, tokens[i + 1])
               /\ i' = i + 1
               /\ UNCHANGED <<broken_pairs, joins>>
    /\ UNCHANGED <<pc, text, normalized, dict_file, word_set, tokens, tok_idx,
                   split_fixes, chunkVars, exportVars>>
    /\ UNCHANGED runVars

\* line 381
JoinEnd ==
    /\ pc = "join_loop"
    /\ i >= Len(tokens)
    /\ text' = Join(fixed)
    /\ pc' = "split_start"
    /\ UNCHANGED <<normalized, dict_file, word_set, tokens, fixed, i, tok_idx,
                   broken_pairs, joins, split_fixes, chunkVars, exportVars>>
    /\ UNCHANGED runVars

\* lines 391-396
SplitStart ==
    /\ pc = "split_start"
    /\ split_fixes' = 0
    /\ IF word_set # {}
          THEN /\ tokens' = Split(text)
               /\ fixed' = <<>>
               /\ tok_idx' = 0
               /\ pc' = "split_loop"
          ELSE /\ UNCHANGED <<tokens, fixed, tok_idx>>
               /\ pc' = "dropcap"
    /\ UNCHANGED <<text, normalized, dict_file, word_set, i, broken_pairs, joins,
                   chunkVars, exportVars>>
    /\ UNCHANGED runVars

\* lines 398-419: one iteration of `for tok in tokens`
SplitStep ==
    /\ pc = "split_loop"
    /\ tok_idx < Len(tokens)
    /\ LET tok == tokens[tok_idx + 1]
           cut == FirstValidCut(tok, word_set)
       IN IF ~PassedThrough(tok, word_set) /\ cut > 0
             THEN /\ fixed' = Append(fixed, SplitAt(tok, cut))
                  /\ split_fixes' = split_fixes + 1
             ELSE /\ fixed' = Append(fixed, tok)
                  /\ UNCHANGED split_fixes
    /\ tok_idx' = tok_idx + 1
    /\ UNCHANGED <<pc, text, normalized, dict_file, word_set, tokens, i,
                   broken_pairs, joins, chunkVars, exportVars>>
    /\ UNCHANGED runVars

\* line 421; the drop-cap pass is next
SplitEnd ==
    /\ pc = "split_loop"
    /\ tok_idx = Len(tokens)
    /\ text' = Join(fixed)
    /\ pc' = "dropcap"
    /\ UNCHANGED <<normalized, dict_file, word_set, tokens, fixed, i, tok_idx,
                   broken_pairs, joins, split_fixes, chunkVars, exportVars>>
    /\ UNCHANGED runVars

NextRepair ==
    \/ LoadDictionary
    \/ JoinStart
    \/ JoinStep
    \/ JoinEnd
    \/ SplitStart
    \/ SplitStep
    \/ SplitEnd

SpecRepair == InitRepair /\ [][NextRepair]_vars

\* the number of tokens whose lowercase form is in the Lexicon
Members(toks) == Cardinality({k \in 1..Len(toks) : Lower(toks[k]) \in word_set})

\* C4: in the join pass, at a scan position with a next token where tokens[i]
\* has length <= 2 and both tokens are alphabetic, the broken-pair counter
\* goes up by one and the tokens are merged (scan advancing by two, join
\* counter up by one) iff the lowercase concatenation is in the Lexicon,
\* otherwise tokens[i] is output unchanged and the scan advances by one; no
\* other position changes a counter, and joins <= broken pairs throughout.
C4_JoinPass ==
    /\ [](joins <= broken_pairs)
    /\ [][(pc = "join_loop" /\ i < Len(tokens)) =>
            LET a == tokens[i + 1]
                candidate == /\ i + 1 < Len(tokens)
                             /\ Len(a) <= 2
                             /\ IsAlpha(a)
                             /\ IsAlpha(tokens[i + 2])
                inLexicon == candidate /\ Lower(a \o tokens[i + 2]) \in word_set
            IN /\ broken_pairs' = broken_pairs + (IF candidate THEN 1 ELSE 0)
               /\ joins' = joins + (IF inLexicon THEN 1 ELSE 0)
               /\ candidate =>
                    IF inLexicon
                       THEN fixed' = Append(fixed, a \o tokens[i + 2]) /\ i' = i + 2
                       ELSE fixed' = Append(fixed, a) /\ i' = i + 1
          ]_vars

\* C4 witness: the scan has ended after a merge and after a broken pair whose
\* concatenation was not a word.
C4_Witness ==
    /\ pc = "join_loop"
    /\ i = Len(tokens)
    /\ joins >= 1
    /\ broken_pairs > joins

\* the cut positions of a token whose two lowercase halves are both words
ValidCuts(tok) ==
    {c \in 1..(Len(tok) - 1) :
        /\ SubSeq(Lower(tok), 1, c) \in word_set
        /\ SubSeq(Lower(tok), c + 1, Len(tok)) \in word_set}

C6_JoinKeepsRate ==
    (pc = "split_start" /\ word_set # {} /\ Len(tokens) > 0) =>
        Members(fixed) * Len(tokens) >= Members(tokens) * Len(fixed)

\* C6 as amended: the join pass never increases the number of tokens that
\* are not in the Lexicon.
C6_JoinAddsNoNonWord ==
    (pc = "split_start" /\ word_set # {}) =>
        Len(fixed) - Members(fixed) <= Len(tokens) - Members(tokens)

\* C6 witness: a join pass that merged two Lexicon words next to a token that
\* is not a word, so that the membership rate fell.
C6_Witness ==
    /\ pc = "split_start"
    /\ word_set # {}
    /\ joins >= 1
    /\ Members(fixed) * Len(tokens) < Members(tokens) * Len(fixed)

\* C7: with a non-empty Lexicon and a text in which no join and no split
\* applies, the text handed to the drop-cap pass is identical to the text the
\* DictionaryRepairer received, line breaks and other whitespace included.
C7_RepairFailsSafe ==
    (pc = "dropcap" /\ word_set # {} /\ joins = 0 /\ split_fixes = 0) =>
        text = normalized

\* the lexicon file is absent or yields no words
YieldsNoWords(file) ==
    ~file.exists \/ \A k \in 1..Len(file.lines) : Split(file.lines[k]) = <<>>

\* C8: when the lexicon file is absent or yields no words, no error is
\* raised, neither pass runs, and the run reaches the drop-cap stage with the
\* text unchanged and the three counters at zero.
C8_EmptyLexiconSkips ==
    YieldsNoWords(dict_file) =>
        /\ pc \notin {"raised", "join_loop", "split_loop"}
        /\ pc = "dropcap" =>
              /\ text = normalized
              /\ broken_pairs = 0
              /\ joins = 0
              /\ split_fixes = 0

----------------------------------------------------------------------------
(* BLOCKS 5 & 6: word-bound chunks *)

CHUNK_WORDS == 180
OVERLAP_WORDS == 30
MIN_WORDS == 80

\* the words of kept sentence j: n word occurrences, each tagged by its place
SentenceWords(j, n) == [p \in 1..n |-> <<j, p>>]

\* mutant: the new sentence's length is left out of the size test
Fits_ignoring_sentence(cur, w) == Len(cur) <= CHUNK_WORDS

\* len(current_words) + len(w) <= CHUNK_WORDS
Fits(cur, w) == Len(cur) + Len(w) <= CHUNK_WORDS

\* mutant: the floor test lets a buffer of exactly 80 words through
Emittable_at_floor(cur) == Len(cur) >= MIN_WORDS

\* len(current_words) > 80, the test before each chunks.append
Emittable(cur) == Len(cur) > MIN_WORDS

\* current_words[-OVERLAP_WORDS:] + w
OverlapTail(cur, w) == LastN(cur, OVERLAP_WORDS) \o w

InitChunk ==
    /\ pc = "chunk"
    /\ \E lens \in SeqsUpTo(SentLens, MaxSents) :
           good = [j \in 1..Len(lens) |-> SentenceWords(j, lens[j])]
    /\ si = 0
    /\ current_words = <<>>
    /\ chunks = <<>>
    /\ only_appended = TRUE
    /\ chunk_appended = <<>>
    /\ CleanIdle
    /\ ExportIdle
    /\ RunIdle

\* one iteration of `for sent in good`, the append branch
ChunkAppend ==
    /\ pc = "chunk"
    /\ si < Len(good)
    /\ LET w == good[si + 1] IN
        /\ Fits(current_words, w)
        /\ current_words' = current_words \o w
    /\ si' = si + 1
    /\ UNCHANGED <<pc, good, chunks, only_appended, chunk_appended, cleanVars, exportVars>>
    /\ UNCHANGED runVars

\* one iteration of `for sent in good`, the else branch
ChunkOverflow ==
    /\ pc = "chunk"
    /\ si < Len(good)
    /\ LET w == good[si + 1] IN
        /\ ~Fits(current_words, w)
        /\ IF Emittable(current_words)
              THEN /\ chunks' = Append(chunks, current_words)
                   /\ chunk_appended' = Append(chunk_appended, only_appended)
              ELSE UNCHANGED <<chunks, chunk_appended>>
        /\ current_words' = OverlapTail(current_words, w)
    /\ only_appended' = FALSE
    /\ si' = si + 1
    /\ UNCHANGED <<pc, good, cleanVars, exportVars>>
    /\ UNCHANGED runVars

\* after the loop: the last chunk
ChunkFlush ==
    /\ pc = "chunk"
    /\ si = Len(good)
    /\ IF Emittable(current_words)
          THEN /\ chunks' = Append(chunks, current_words)
               /\ chunk_appended' = Append(chunk_appended, only_appended)
          ELSE UNCHANGED <<chunks, chunk_appended>>
    /\ pc' = "chunked"
    /\ UNCHANGED <<good, si, current_words, only_appended, cleanVars, exportVars>>
    /\ UNCHANGED runVars

NextChunk == ChunkAppend \/ ChunkOverflow \/ ChunkFlush

SpecChunk == InitChunk /\ [][NextChunk]_vars

\* the kept sentence whose words were placed last in a chunk's buffer
LastSentence(chunk) == good[chunk[Len(chunk)][1]]

\* C1: every chunk in the chunk sequence, whether emitted on overflow or by
\* the final flush, has more than 80 words.
C1_ChunkAboveFloor ==
    \A k \in 1..Len(chunks) : Len(chunks[k]) > 80

\* C1 witness: the loop has ended with a chunk emitted on overflow and one
\* emitted by the final flush, from an input with a sentence of 80 words or fewer.
C1_Witness ==
    /\ pc = "chunked"
    /\ Len(chunks) >= 2
    /\ chunks[Len(chunks)] = current_words
    /\ \E j \in 1..Len(good) : Len(good[j]) <= 80

\* C2: for every pair of consecutive emitted chunks k and k+1, the last 30
\* words of chunk k are, in the same order, the first 30 words of chunk k+1.
C2_OverlapCarried ==
    \A k \in 1..(Len(chunks) - 1) :
        LastN(chunks[k], 30) = FirstN(chunks[k + 1], 30)

\* C3: no emitted chunk has more than 180 + (length of the last sentence
\* placed in its buffer) words, and a chunk whose buffer was only ever
\* extended by the append branch has at most 180 words.
C3_ChunkSizeBound ==
    \A k \in 1..Len(chunks) :
        /\ Len(chunks[k]) <= 180 + Len(LastSentence(chunks[k]))
        /\ chunk_appended[k] => Len(chunks[k]) <= 180

\* C3 witness: one chunk built by appends alone and one, longer than 180
\* words, whose buffer was started by the overflow branch.
C3_Witness ==
    /\ \E k \in 1..Len(chunks) : chunk_appended[k] /\ Len(chunks[k]) = 180
    /\ \E k \in 1..Len(chunks) : ~chunk_appended[k] /\ Len(chunks[k]) > 180

\* the word occurrences held in a buffer or chunk
WordsOf(ws) == {ws[k] : k \in 1..Len(ws)}

\* C18: only a trailing short buffer is dropped: after the last sentence,
\* every word occurrence of every kept sentence is in at least one emitted
\* chunk, unless it is still in the final buffer and that buffer has 80 words
\* or fewer; no word of a short buffer is lost when a sentence overflows it.
C18_OnlyTrailingBufferDropped ==
    pc = "chunked" =>
        \A j \in 1..Len(good) : \A p \in 1..Len(good[j]) :
            \/ \E k \in 1..Len(chunks) : good[j][p] \in WordsOf(chunks[k])
            \/ /\ Len(current_words) <= 80
               /\ good[j][p] \in WordsOf(current_words)

----------------------------------------------------------------------------
(* BLOCK 8: indexed records and the train/val/test split *)

\* the k-th chunk handed to the exporter: a text of 81 words of its own
ExportChunk(k) == SentenceWords(k, MIN_WORDS + 1)

\* {"id": i, "text": c, "word_count": len(c.split())} for i, c in enumerate(chunks)
MakeRecords(cs) ==
    [k \in 1..Len(cs) |-> [id |-> k - 1, text |-> cs[k], word_count |-> Len(cs[k])]]

\* every order of n positions
AllOrders(n) == {f \in [1..n -> 1..n] : \A a, b \in 1..n : a # b => f[a] # f[b]}

\* the rotations of n positions and their reversals
RotatedOrders(n) ==
    {[k \in 1..n |-> ((k - 1 + r) % n) + 1] : r \in 0..(n - 1)}
    \cup {[k \in 1..n |-> ((n - k + r) % n) + 1] : r \in 0..(n - 1)}

\* random.shuffle under random.seed(42) yields one order of the list, fixed by
\* the generator; the orders tried are all of them for short lists, and the
\* rotations and their reversals for longer ones
ShuffleOrders(n) == IF n <= FullShuffleLen THEN AllOrders(n) ELSE RotatedOrders(n)

\* lst[a:b] for 0 <= a, b <= len(lst)
Slice(lst, a, b) == SubSeq(lst, a + 1, b)

\* mutant: the train cut is rounded up
TrainEnd_rounded_up(n) == (n * 8 + 9) \div 10

\* int(n * 0.8); the float product truncates to floor(8n/10) for every n
\* below two million
TrainEnd(n) == (n * 8) \div 10

\* int(n * 0.9)
ValEnd(n) == (n * 9) \div 10

TrainSlice(sh) == Slice(sh, 0, TrainEnd(Len(sh)))

ValSlice(sh) == Slice(sh, TrainEnd(Len(sh)), ValEnd(Len(sh)))

\* mutant: the test list starts one record late
TestSlice_one_late(sh) == Slice(sh, ValEnd(Len(sh)) + 1, Len(sh))

TestSlice(sh) == Slice(sh, ValEnd(Len(sh)), Len(sh))

InitExport ==
    /\ pc = "build_records"
    /\ \E n \in 0..MaxChunks : chunks = [k \in 1..n |-> ExportChunk(k)]
    /\ good = <<>>
    /\ si = 0
    /\ current_words = <<>>
    /\ only_appended = TRUE
    /\ chunk_appended = <<>>
    /\ CleanIdle
    /\ ExportIdle
    /\ RunIdle

\* lines 598-604
BuildRecords ==
    /\ pc = "build_records"
    /\ records' = MakeRecords(chunks)
    /\ pc' = "split_records"
    /\ UNCHANGED <<pairs, neg_idx, shuffled, train_data, val_data, test_data,
                   cleanVars, chunkVars>>
    /\ UNCHANGED runVars

\* lines 652-662
SplitRecords ==
    /\ pc = "split_records"
    /\ \E order \in ShuffleOrders(Len(records)) :
           shuffled' = [k \in 1..Len(records) |-> records[order[k]]]
    /\ train_data' = TrainSlice(shuffled')
    /\ val_data' = ValSlice(shuffled')
    /\ test_data' = TestSlice(shuffled')
    /\ pc' = "split_saved"
    /\ UNCHANGED <<records, pairs, neg_idx, cleanVars, chunkVars>>
    /\ UNCHANGED runVars

NextExport == BuildRecords \/ SplitRecords

SpecExport == InitExport /\ [][NextExport]_vars

\* the ids of the records in a list
Ids(lst) == {lst[k].id : k \in 1..Len(lst)}

\* C10: the split partitions the shuffled records by position with floor-based
\* cut indices: train is the first floor(0.8n), val runs up to floor(0.9n),
\* test is the rest; the three lists are pairwise disjoint, every record is in
\* exactly one of them, and their lengths sum to n.
C10_SplitPartitions ==
    pc = "split_saved" =>
        LET n == Len(records) IN
        /\ train_data = SubSeq(shuffled, 1, (8 * n) \div 10)
        /\ val_data = SubSeq(shuffled, (8 * n) \div 10 + 1, (9 * n) \div 10)
        /\ test_data = SubSeq(shuffled, (9 * n) \div 10 + 1, n)
        /\ Ids(train_data) \cap Ids(val_data) = {}
        /\ Ids(train_data) \cap Ids(test_data) = {}
        /\ Ids(val_data) \cap Ids(test_data) = {}
        /\ \A k \in 1..n :
              \E lst \in {train_data, val_data, test_data} :
                  \E j \in 1..Len(lst) : lst[j] = records[k]
        /\ Len(train_data) + Len(val_data) + Len(test_data) = n

\* C10 witness: ten or more records were shuffled into another order and each
\* of the three lists received at least one.
C10_Witness ==
    /\ pc = "split_saved"
    /\ shuffled # records
    /\ train_data # <<>>
    /\ val_data # <<>>
    /\ test_data # <<>>

----------------------------------------------------------------------------
(* BLOCK 8: the pair dataset *)

\* chunks[i], chunks[i + 1] with label 1 for i in range(len(chunks) - 1)
PositivePairsOf(cs) ==
    [k \in 1..(Len(cs) - 1) |-> [text_a |-> cs[k], text_b |-> cs[k + 1], label |-> 1]]

\* random.sample(chunks, 2) draws two different positions, in either order;
\* under random.seed(42) the draw is fixed by the generator, every draw is tried
SampleTwo(cs) == {<<a, b>> \in (1..Len(cs)) \X (1..Len(cs)) : a # b}

\* mutant: one negative fewer than chunks
NegativeCount_one_fewer(cs) == Len(cs) - 1

\* for _ in range(len(chunks))
NegativeCount(cs) == Len(cs)

\* the chunk texts tried as the exporter's input; a text may repeat
PairTexts == {ExportChunk(1), ExportChunk(2), ExportChunk(3)}

\* the state at line 628: the records are built, no pair yet
InitPairs ==
    /\ pc = "positive_pairs"
    /\ chunks \in SeqsUpTo(PairTexts, MaxPairChunks)
    /\ records = MakeRecords(chunks)
    /\ pairs = <<>>
    /\ neg_idx = 0
    /\ shuffled = <<>>
    /\ train_data = <<>>
    /\ val_data = <<>>
    /\ test_data = <<>>
    /\ good = <<>>
    /\ si = 0
    /\ current_words = <<>>
    /\ only_appended = TRUE
    /\ chunk_appended = <<>>
    /\ CleanIdle
    /\ RunIdle

\* lines 629-635
PositivePairs ==
    /\ pc = "positive_pairs"
    /\ pairs' = PositivePairsOf(chunks)
    /\ neg_idx' = 0
    /\ pc' = "negative_pairs"
    /\ UNCHANGED <<records, shuffled, train_data, val_data, test_data,
                   cleanVars, chunkVars>>
    /\ UNCHANGED runVars

\* lines 639-646: one iteration of the loop over range(len(chunks))
NegativePair ==
    /\ pc = "negative_pairs"
    /\ Len(chunks) >= 2
    /\ neg_idx < NegativeCount(chunks)
    /\ \E ab \in SampleTwo(chunks) :
           pairs' = Append(pairs, [text_a |-> chunks[ab[1]],
                                   text_b |-> chunks[ab[2]],
                                   label |-> 0])
    /\ neg_idx' = neg_idx + 1
    /\ UNCHANGED <<pc, records, shuffled, train_data, val_data, test_data,
                   cleanVars, chunkVars>>
    /\ UNCHANGED runVars

\* line 648, after the loop or when there are fewer than two chunks
SavePairs ==
    /\ pc = "negative_pairs"
    /\ Len(chunks) < 2 \/ neg_idx >= NegativeCount(chunks)
    /\ pc' = "split_records"
    /\ UNCHANGED <<cleanVars, chunkVars, exportVars>>
    /\ UNCHANGED runVars

NextPairs == PositivePairs \/ NegativePair \/ SavePairs \/ SplitRecords

SpecPairs == InitPairs /\ [][NextPairs]_vars

\* C11: with exactly one chunk the exporter yields 1 record, 0 pairs and
\* split sizes train/val/test of (1, 0, 0).
C11_SingleChunkInTrain ==
    (pc = "split_saved" /\ Len(chunks) = 1) =>
        /\ Len(records) = 1
        /\ Len(pairs) = 0
        /\ <<Len(train_data), Len(val_data), Len(test_data)>> = <<1, 0, 0>>

\* C11 as amended: with exactly one chunk the exporter yields 1 record,
\* 0 pairs and split sizes (0, 0, 1): the single record is placed in test.
C11_SingleChunkInTest ==
    (pc = "split_saved" /\ Len(chunks) = 1) =>
        /\ Len(records) = 1
        /\ Len(pairs) = 0
        /\ <<Len(train_data), Len(val_data), Len(test_data)>> = <<0, 0, 1>>
        /\ test_data = records

\* C11 witness: the export of a single chunk has been split.
C11_Witness ==
    pc = "split_saved" /\ Len(chunks) = 1

\* C12: the pair dataset is len(chunks)-1 label-1 pairs followed by
\* len(chunks) label-0 pairs when there are two chunks or more, and is empty
\* when there are fewer.
C12_PairCounts ==
    pc \in {"split_records", "split_saved"} =>
        LET n == Len(chunks) IN
        IF n >= 2
           THEN /\ Len(pairs) = (n - 1) + n
                /\ \A k \in 1..(n - 1) : pairs[k].label = 1
                /\ \A k \in n..(2 * n - 1) : pairs[k].label = 0
           ELSE Len(pairs) = 0

\* C12 witness: the pairs of two or more chunks have been saved.
C12_Witness ==
    pc = "split_records" /\ Len(chunks) >= 2 /\ Len(pairs) >= 3

\* C13: every label-1 pair is (chunk i, chunk i+1), and every label-0 pair is
\* two chunks whose positions differ by at least 2, so that no negative is
\* also a positive pair.
C13_NegativesNotAdjacent ==
    \A k \in 1..Len(pairs) :
        IF pairs[k].label = 1
           THEN \E p \in 1..(Len(chunks) - 1) :
                    /\ pairs[k].text_a = chunks[p]
                    /\ pairs[k].text_b = chunks[p + 1]
           ELSE /\ \E a, b \in 1..Len(chunks) :
                      /\ a - b >= 2 \/ b - a >= 2
                      /\ pairs[k].text_a = chunks[a]
                      /\ pairs[k].text_b = chunks[b]
                /\ \A j \in 1..Len(pairs) :
                      pairs[j].label = 1 =>
                          <<pairs[j].text_a, pairs[j].text_b>>
                              # <<pairs[k].text_a, pairs[k].text_b>>

----------------------------------------------------------------------------
(* BLOCKS 1-9: the run state marker and the persisted artifacts *)

\* the stages the marker records, in the order the run writes them
Stages == <<"init", "text_extracted", "cleaned", "chunked",
            "datasets_exported", "evaluation_done">>

\* the place of a stage in that order; 0 for the stage of no marker
StageRank(s) ==
    IF \E k \in 1..Len(Stages) : Stages[k] = s
       THEN CHOOSE k \in 1..Len(Stages) : Stages[k] = s
       ELSE 0

\* source files tried: pdf_path.suffix.lower() == ".pdf" or not
PdfSources == {"a.pdf", "b.pdf"}
TextSources == {"c.txt"}
Sources == PdfSources \cup TextSources

\* mutant: the guard empties the cache area only
CleanedAreas_cache_only == {"cache"}

\* for folder in [CACHE_DIR, DATASET_DIR, OUTPUT_DIR]
CleanedAreas == {"cache", "datasets", "outputs"}

\* every item except the state file is unlinked; the state file is not in `files`
CleanFolders(fs) == [a \in Areas |-> IF a \in CleanedAreas THEN {} ELSE fs[a]]

\* write_text / save_json: the named files of an area now hold this run's data
WriteFiles(fs, area, names, r) ==
    [fs EXCEPT ![area] = {f \in @ : f.name \notin names}
                             \cup {[name |-> n, run |-> r] : n \in names}]

\* state = json.loads(state_file.read_text()); state["stage"] = s; write back
WriteStage(sf, s) == [sf EXCEPT !.stage = s]

\* the ways block 3 can end for a source: import fitz failing, fitz.open or
\* get_text raising, the OCR try-block raising, read_text raising, or a text
\* delivered under its method tag
ExtractionOutcomes(src) ==
    IF src \in PdfSources
       THEN {"fitz_missing", "digital_failed", "digital_block", "paddle_ocr",
             "ocr_failed"}
       ELSE {"fitz_missing", "read_failed", "text_file"}

\* mutant: only the missing PyMuPDF import ends the run
EndsRun_import_only(o) == o = "fitz_missing"

\* `return False` at lines 196 and 266, and the exception that leaves
\* run_pipeline from the digital extraction; the OCR exception is caught
EndsRun(o) == o \in {"fitz_missing", "digital_failed", "read_failed"}

\* method_used for an extraction that delivered a text
MethodUsed(o) == IF o = "ocr_failed" THEN "digital_fallback" ELSE o

InitRun ==
    /\ pc = "not_running"
    /\ RunIdle
    /\ CleanIdle
    /\ ChunkIdle
    /\ ExportIdle

\* lines 69-71: the source file does not exist
SourceMissing ==
    /\ pc = "not_running"
    /\ run < MaxRuns
    /\ run' = run + 1
    /\ result' = "failure"
    /\ outcome' = "none"
    /\ UNCHANGED <<pc, source, state_file, files, CLEAN_REQUIRED, last_stage,
                   cleanVars, chunkVars, exportVars>>

\* lines 94-131: load the marker, compare the file names, clean or keep
PipelineGuard ==
    /\ pc = "not_running"
    /\ run < MaxRuns
    /\ run' = run + 1
    /\ \E src \in Sources :
        /\ source' = src
        /\ IF state_file.exists /\ state_file.pdf = src
              THEN /\ CLEAN_REQUIRED' = FALSE
                   /\ UNCHANGED <<files, state_file>>
              ELSE /\ files' = CleanFolders(files)
                   /\ CLEAN_REQUIRED' = TRUE
                   /\ state_file' = [exists |-> TRUE, pdf |-> src,
                                     stage |-> "init", method |-> "none"]
    /\ last_stage' = state_file.stage
    /\ outcome' = "none"
    /\ result' = "none"
    /\ pc' = "block3"
    /\ UNCHANGED <<cleanVars, chunkVars, exportVars>>

\* lines 190-281: text extraction, raw_text.txt, stage text_extracted
ExtractText ==
    /\ pc = "block3"
    /\ \E o \in ExtractionOutcomes(source) :
        /\ outcome' = o
        /\ IF EndsRun(o)
              THEN /\ result' = "failure"
                   /\ pc' = "not_running"
                   /\ UNCHANGED <<files, state_file>>
              ELSE /\ files' = WriteFiles(files, "datasets", {"raw_text.txt"}, run)
                   /\ state_file' = [WriteStage(state_file, "text_extracted")
                                        EXCEPT !.method = MethodUsed(o)]
                   /\ pc' = "block4"
                   /\ UNCHANGED result
    /\ UNCHANGED <<source, CLEAN_REQUIRED, last_stage, run,
                   cleanVars, chunkVars, exportVars>>

\* lines 290-489: cleaning, clean_text.txt, stage cleaned; a blank line in the
\* lexicon file raises at line 341 and ends the run
CleanText ==
    /\ pc = "block4"
    /\ \E lexicon_loads \in BOOLEAN :
        IF lexicon_loads
           THEN /\ files' = WriteFiles(files, "datasets", {"clean_text.txt"}, run)
                /\ state_file' = WriteStage(state_file, "cleaned")
                /\ pc' = "block5"
                /\ UNCHANGED result
           ELSE /\ result' = "failure"
                /\ pc' = "not_running"
                /\ UNCHANGED <<files, state_file>>
    /\ UNCHANGED <<source, CLEAN_REQUIRED, last_stage, run, outcome,
                   cleanVars, chunkVars, exportVars>>

\* lines 500-566: chunks.json, stage chunked
ChunkText ==
    /\ pc = "block5"
    /\ files' = WriteFiles(files, "datasets", {"chunks.json"}, run)
    /\ state_file' = WriteStage(state_file, "chunked")
    /\ pc' = "block8"
    /\ UNCHANGED <<source, CLEAN_REQUIRED, last_stage, run, outcome, result,
                   cleanVars, chunkVars, exportVars>>

\* lines 581-675: the dataset files, stage datasets_exported
ExportDatasets ==
    /\ pc = "block8"
    /\ files' = WriteFiles(files, "datasets",
                           {"chunks_with_id.json", "corpus.txt",
                            "lora_instruct.json", "pairs.json", "train.json",
                            "val.json", "test.json"}, run)
    /\ state_file' = WriteStage(state_file, "datasets_exported")
    /\ pc' = "block9"
    /\ UNCHANGED <<source, CLEAN_REQUIRED, last_stage, run, outcome, result,
                   cleanVars, chunkVars, exportVars>>

\* lines 686-815: the report files, stage evaluation_done, return True
BuildReport ==
    /\ pc = "block9"
    /\ files' = WriteFiles(files, "outputs",
                           {"dataset_report.json", "dataset_report.txt"}, run)
    /\ state_file' = WriteStage(state_file, "evaluation_done")
    /\ result' = "success"
    /\ pc' = "not_running"
    /\ UNCHANGED <<source, CLEAN_REQUIRED, last_stage, run, outcome,
                   cleanVars, chunkVars, exportVars>>

NextRun ==
    \/ SourceMissing
    \/ PipelineGuard
    \/ ExtractText
    \/ CleanText
    \/ ChunkText
    \/ ExportDatasets
    \/ BuildReport

SpecRun == InitRun /\ [][NextRun]_vars

\* the stage each block writes to the marker when it completes
StageOfBlock(b) ==
    CASE b = "block3" -> "text_extracted"
      [] b = "block4" -> "cleaned"
      [] b = "block5" -> "chunked"
      [] b = "block8" -> "datasets_exported"
      [] b = "block9" -> "evaluation_done"

Blocks == {"block3", "block4", "block5", "block8", "block9"}

\* the files of all areas written by run r
WrittenBy(r) == {f \in UNION {files[a] : a \in Areas} : f.run = r}

\* C14: when the marker records the same source as the current one, the run
\* is short-circuited: a stage the marker already recorded as reached is not
\* executed again, so it rewrites neither its artifacts nor the marker.
C14_SameSourceSkips ==
    [][(/\ pc \in Blocks
        /\ ~CLEAN_REQUIRED
        /\ StageRank(last_stage) >= StageRank(StageOfBlock(pc)))
          => (files' = files /\ state_file' = state_file)]_vars

\* C15: a run started on a source other than the one in the marker, or with
\* no marker, has, before extraction or any later stage runs, removed every
\* artifact of prior runs from cache, datasets and outputs and rewritten the
\* marker to the new source with stage init, whatever state came before.
C15_NewSourceInvalidates ==
    /\ [][(/\ pc = "not_running"
           /\ pc' # "not_running"
           /\ ~state_file.exists \/ state_file.pdf # source')
             => /\ pc' = "block3"
                /\ CLEAN_REQUIRED'
                /\ \A a \in Areas : files'[a] = {}
                /\ state_file' = [exists |-> TRUE, pdf |-> source',
                                  stage |-> "init", method |-> "none"]]_vars
    /\ []((pc \in Blocks /\ CLEAN_REQUIRED) =>
             /\ WrittenBy(run) = UNION {files[a] : a \in Areas}
             /\ state_file.exists
             /\ state_file.pdf = source)

\* C15 witness: a run on a new source is about to extract, after a run on
\* another source was aborted with raw_text.txt written.
C15_Witness ==
    /\ pc = "block3"
    /\ CLEAN_REQUIRED
    /\ last_stage = "text_extracted"
    /\ result = "none"

\* C16: any failure while acquiring raw text (PyMuPDF unavailable, digital
\* extraction failing, the OCR fallback raising, the text file failing to
\* read) aborts the run: raw_text is not persisted, the marker does not reach
\* text_extracted in that run and no later stage executes.
C16_AcquisitionFailureFatal ==
    outcome \in {"fitz_missing", "digital_failed", "ocr_failed", "read_failed"} =>
        /\ pc = "not_running"
        /\ result = "failure"
        /\ WrittenBy(run) = {}
        /\ state_file.stage = IF CLEAN_REQUIRED THEN "init" ELSE last_stage

\* C16 as amended: PyMuPDF unavailable, digital extraction failing or the text
\* file failing to read aborts the run with nothing persisted and the marker
\* untouched; an OCR fallback that raises is not fatal: the run goes on with
\* the digital text under the method tag digital_fallback.
C16_FatalUnlessOcrFallback ==
    /\ outcome \in {"fitz_missing", "digital_failed", "read_failed"} =>
        /\ pc = "not_running"
        /\ result = "failure"
        /\ WrittenBy(run) = {}
        /\ state_file.stage = IF CLEAN_REQUIRED THEN "init" ELSE last_stage
    /\ outcome = "ocr_failed" =>
        /\ [name |-> "raw_text.txt", run |-> run] \in files["datasets"]
        /\ state_file.method = "digital_fallback"
        /\ StageRank(state_file.stage) >= StageRank("text_extracted")

\* C16 witness: extraction failed fatally in a rerun of a source whose
\* earlier run had completed.
C16_Witness ==
    /\ outcome \in {"fitz_missing", "digital_failed", "read_failed"}
    /\ ~CLEAN_REQUIRED
    /\ last_stage = "evaluation_done"
    /\ state_file.stage = "evaluation_done"
    /\ result = "failure"

\* C17: every write to the marker is either a reset to init on a new source
\* or an advance from the current stage to its immediate successor; the stage
\* never moves backwards or skips, and a run that returns success leaves the
\* marker at evaluation_done.
C17_MarkerStateMachine ==
    /\ [][(state_file'.stage # state_file.stage \/ state_file'.pdf # state_file.pdf) =>
            \/ /\ state_file'.stage = "init"
               /\ ~state_file.exists \/ state_file.pdf # state_file'.pdf
            \/ /\ state_file'.pdf = state_file.pdf
               /\ StageRank(state_file'.stage) = StageRank(state_file.stage) + 1]_vars
    /\ [](result = "success" => state_file.stage = "evaluation_done")

====
